---- MODULE Spec2Model ----
(***************************************************************************)
(* Fitbit_analysis17: src/src/combine_data.py and src/src/filter_data.py.  *)
(*                                                                         *)
(* Two folders of CSV extracts (data_1, data_2) are united table by table  *)
(* (MergedData.__init__) and then reconciled by three module-level         *)
(* pipelines into merged_data.minutes_df, .hourly_df and .daily_df.        *)
(*                                                                         *)
(* DataFrames are objects: `heap` holds their values and data_1, data_2    *)
(* and merged_data map attribute names to object ids, so that an in-place  *)
(* write through one name is seen through every other name of the object.  *)
(*                                                                         *)
(* When the script has ended, a DataFilter is built on merged_data and its *)
(* three query methods are called, any number of times and in any order.   *)
(***************************************************************************)
EXTENDS Integers, Sequences, FiniteSets, TLC

VARIABLES
    heap,         \* object id (1..Len(heap)) -> DataFrame value
    data_1,       \* CSVData of data/Folder_1: attribute name -> object id
    data_2,       \* CSVData of data/Folder_2: attribute name -> object id
    merged_data,  \* the MergedData object: attribute name -> object id
    printed,      \* the diagnostics printed so far, in order
    raised,       \* "none", or the exception that ended the script
    pc,           \* the statement block the script is about to run
    data_filter,  \* the DataFilter object: attribute name -> object id
    call,         \* the last call of a DataFilter method and how it ended
    returned      \* the object ids of the frames the last call returned

vars == <<heap, data_1, data_2, merged_data, printed, raised, pc, data_filter, call, returned>>

----------------------------------------------------------------------------
(* Cells.  pandas cells are dynamically typed; a cell is tagged with its   *)
(* type so that cells of different types are unequal, not incomparable.    *)

NaN == <<"NaN">>
NaT == <<"NaT">>
Txt(s) == <<"str", s>>
Num(n) == <<"num", n>>
Timestamp(t) == <<"ts", t>>     \* t: see Seconds

isna(v) == v \in {NaN, NaT}

----------------------------------------------------------------------------
(* Timestamp texts.  TLA+ strings are atomic, so the texts the model feeds *)
(* to the parsers are listed with the fields a scan of their characters    *)
(* gives: `form` is the layout of the text, the other fields its numbers   *)
(* as written (hr is the hour as written: 1..12 with AM/PM, 0..23 without).*)

Fields(form, mo, dy, yr, hr, mi, se, ap) ==
    [form |-> form, mo |-> mo, dy |-> dy, yr |-> yr, hr |-> hr, mi |-> mi, se |-> se, ap |-> ap]

Scan ==
    ( "4/12/2016 1:00:00 AM"   :> Fields("m/d/Y I:M:S p", 4, 12, 2016, 1, 0, 0, "AM") ) @@
    ( "04/12/2016 01:00:00 AM" :> Fields("m/d/Y I:M:S p", 4, 12, 2016, 1, 0, 0, "AM") ) @@
    ( "4/12/2016 2:00:00 AM"   :> Fields("m/d/Y I:M:S p", 4, 12, 2016, 2, 0, 0, "AM") ) @@
    ( "4/12/2016 12:00:00 AM"  :> Fields("m/d/Y I:M:S p", 4, 12, 2016, 12, 0, 0, "AM") ) @@
    ( "4/13/2016 12:00:00 AM"  :> Fields("m/d/Y I:M:S p", 4, 13, 2016, 12, 0, 0, "AM") ) @@
    ( "4/12/2016 8:00:00 AM"   :> Fields("m/d/Y I:M:S p", 4, 12, 2016, 8, 0, 0, "AM") ) @@
    ( "4/12/2016 11:59:59 PM"  :> Fields("m/d/Y I:M:S p", 4, 12, 2016, 11, 59, 59, "PM") ) @@
    ( "2016-04-12 01:00:00"    :> Fields("Y-m-d H:M:S", 4, 12, 2016, 1, 0, 0, "") ) @@
    ( "4/12/2016"              :> Fields("m/d/Y", 4, 12, 2016, 0, 0, 0, "") ) @@
    ( "4/13/2016"              :> Fields("m/d/Y", 4, 13, 2016, 0, 0, 0, "") ) @@
    ( "unknown"                :> Fields("", 0, 0, 0, 0, 0, 0, "") )

(* The rank of a text in the lexicographic (code point) order of strings,  *)
(* which is the order an outer merge sorts its keys in.                    *)
TextRank ==
    ( "04/12/2016 01:00:00 AM" :> 1 ) @@ ( "2016-04-12 01:00:00" :> 2 ) @@
    ( "4/12/2016" :> 3 ) @@ ( "4/12/2016 11:59:59 PM" :> 4 ) @@
    ( "4/12/2016 12:00:00 AM" :> 5 ) @@ ( "4/12/2016 1:00:00 AM" :> 6 ) @@
    ( "4/12/2016 2:00:00 AM" :> 7 ) @@ ( "4/12/2016 8:00:00 AM" :> 8 ) @@
    ( "4/13/2016" :> 9 ) @@ ( "4/13/2016 12:00:00 AM" :> 10 ) @@ ( "unknown" :> 11 )

(* 12-hour clock to 24-hour clock (%I with %p).                            *)
Hour24(f) ==
    IF f.ap = "" THEN f.hr ELSE (f.hr % 12) + (IF f.ap = "PM" THEN 12 ELSE 0)

(* Seconds since 2016 on a scale that keeps the order of the calendar      *)
(* (every month counted as 31 days: the texts above never reach a month's  *)
(* end).                                                                   *)
Seconds(f) ==
    ((((((f.yr - 2016) * 12 + f.mo) * 31 + f.dy) * 24 + Hour24(f)) * 60 + f.mi) * 60) + f.se

(* pd.to_datetime(x, format="%m/%d/%Y %I:%M:%S %p", errors='coerce') of    *)
(* one cell: the text must have exactly that layout (a field may be        *)
(* written with or without its leading zero), else NaT.                    *)
to_datetime_format(v) ==
    IF isna(v) \/ v[1] # "str" THEN NaT
    ELSE IF v[2] \in DOMAIN Scan /\ Scan[v[2]].form = "m/d/Y I:M:S p"
         THEN Timestamp(Seconds(Scan[v[2]]))
         ELSE NaT

(* pd.to_datetime(x, errors='coerce') of one cell: any recognised layout   *)
(* parses, a Timestamp stays what it is, anything else becomes NaT.        *)
to_datetime(v) ==
    IF isna(v) THEN NaT
    ELSE IF v[1] = "ts" THEN v
    ELSE IF v[1] = "str" /\ v[2] \in DOMAIN Scan /\ Scan[v[2]].form # ""
         THEN Timestamp(Seconds(Scan[v[2]]))
         ELSE NaT

(* Series.dt.normalize() of one cell: midnight of the same day.            *)
normalize(v) ==
    IF isna(v) THEN v ELSE Timestamp(v[2] - (v[2] % (24 * 60 * 60)))

----------------------------------------------------------------------------
(* DataFrames.  A DataFrame is its set of column labels and its rows in    *)
(* order; a row maps every column label to a cell.                         *)

Table(cols, rows) == [columns |-> cols, rows |-> rows]

(* pd.DataFrame() and pd.DataFrame(columns=[...]).                         *)
DataFrame(cols) == Table(cols, <<>>)

(* df.empty: no rows or no columns.                                        *)
empty(df) == df.columns = {} \/ df.rows = <<>>

(* len(df)                                                                 *)
len(df) == Len(df.rows)

(* The rows of a sequence at the indices that satisfy Keep, in order.      *)
Filter(rows, Keep(_)) ==
    LET acc[i \in 0..Len(rows)] ==
            IF i = 0 THEN <<>>
            ELSE IF Keep(i) THEN Append(acc[i - 1], rows[i]) ELSE acc[i - 1]
    IN acc[Len(rows)]

(* The cells of a row under the labels of a list, in the list's order.     *)
KeyOf(row, on) == [i \in DOMAIN on |-> row[on[i]]]

(* df.drop_duplicates(subset=..., keep=...): of the rows that agree on the *)
(* subset, keep the first (keep='first', the default) or the last          *)
(* (keep='last'); the rows kept stay in their order.  NaN equals NaN here. *)
drop_duplicates(df, subset, keep) ==
    Table(df.columns,
          Filter(df.rows,
                 LAMBDA i : \A j \in (IF keep = "last" THEN (i + 1)..Len(df.rows) ELSE 1..(i - 1)) :
                                KeyOf(df.rows[j], subset) # KeyOf(df.rows[i], subset)))

(* df.dropna(subset=[col]): the rows whose cell under col is not null.     *)
dropna(df, col) ==
    Table(df.columns, SelectSeq(df.rows, LAMBDA r : ~isna(r[col])))

(* df[col] = f(df[col]) with f = pd.to_datetime(..., format=...).          *)
parse_column_format(df, col) ==
    Table(df.columns,
          [i \in DOMAIN df.rows |-> [df.rows[i] EXCEPT ![col] = to_datetime_format(@)]])

(* df[col] = pd.to_datetime(df[col], errors='coerce')                      *)
parse_column(df, col) ==
    Table(df.columns,
          [i \in DOMAIN df.rows |-> [df.rows[i] EXCEPT ![col] = to_datetime(@)]])

(* df[col] = df[col].dt.normalize()                                        *)
normalize_column(df, col) ==
    Table(df.columns,
          [i \in DOMAIN df.rows |-> [df.rows[i] EXCEPT ![col] = normalize(@)]])

combine_first_skipped(df, col, other) == df

(* df[col] = df[col].combine_first(df[other])                              *)
combine_first(df, col, other) ==
    Table(df.columns,
          [i \in DOMAIN df.rows |->
              [df.rows[i] EXCEPT ![col] = IF isna(@) THEN df.rows[i][other] ELSE @]])

(* df.drop(columns=[col])                                                  *)
drop(df, col) ==
    Table(df.columns \ {col},
          [i \in DOMAIN df.rows |-> [c \in df.columns \ {col} |-> df.rows[i][c]]])

(* df.rename(columns={old: new})                                           *)
rename(df, old, new) ==
    LET cols == (df.columns \ {old}) \cup {new}
    IN Table(cols,
             [i \in DOMAIN df.rows |->
                 [c \in cols |-> df.rows[i][IF c = new THEN old ELSE c]]])

concat_swapped(df1, df2) ==
    LET cols == df1.columns \cup df2.columns
        pad(r, df) == [c \in cols |-> IF c \in df.columns THEN r[c] ELSE NaN]
    IN Table(cols,
             [i \in DOMAIN df2.rows |-> pad(df2.rows[i], df2)]
             \o [i \in DOMAIN df1.rows |-> pad(df1.rows[i], df1)])

(* pd.concat([df1, df2], ignore_index=True): the union of the columns, the *)
(* rows of df1 and then those of df2, NaN under a column a side lacks.     *)
concat(df1, df2) ==
    LET cols == df1.columns \cup df2.columns
        pad(r, df) == [c \in cols |-> IF c \in df.columns THEN r[c] ELSE NaN]
    IN Table(cols,
             [i \in DOMAIN df1.rows |-> pad(df1.rows[i], df1)]
             \o [i \in DOMAIN df2.rows |-> pad(df2.rows[i], df2)])

----------------------------------------------------------------------------
(* pd.merge                                                                *)

(* The order of two cells of one type; a null sorts last.                  *)
CellLess(a, b) ==
    IF isna(a) THEN FALSE
    ELSE IF isna(b) THEN TRUE
    ELSE IF a[1] = "str" /\ b[1] = "str" THEN TextRank[a[2]] < TextRank[b[2]]
    ELSE IF a[1] = b[1] THEN a[2] < b[2]
    ELSE FALSE

(* Lexicographic order of two keys of the same length.                     *)
KeyLess(a, b) ==
    \E i \in DOMAIN a : /\ \A j \in 1..(i - 1) : a[j] = b[j]
                        /\ CellLess(a[i], b[i])

(* A stable sort of [k, row] pairs by k.                                   *)
SortByKey(pairs) ==
    LET ins(s, x) ==
            LET p == Cardinality({j \in DOMAIN s : ~KeyLess(x.k, s[j].k)})
            IN SubSeq(s, 1, p) \o <<x>> \o SubSeq(s, p + 1, Len(s))
        acc[i \in 0..Len(pairs)] ==
            IF i = 0 THEN <<>> ELSE ins(acc[i - 1], pairs[i])
    IN acc[Len(pairs)]

(* Whether df has every column of the list.                                *)
has_columns(df, on) == \A i \in DOMAIN on : on[i] \in df.columns

(* pd.merge(left, right, left_on=..., right_on=..., how=...) for frames    *)
(* that share no column but key columns of the same name (on=... is        *)
(* left_on = right_on).  A key column named differently on the two sides   *)
(* stays two columns, each NaN in the rows the other side alone supplies.  *)
(*   inner: a row per matching pair, in the order of the left rows;        *)
(*   left:  inner, and a left row without a match once, NaN on the right;  *)
(*   outer: left, and the right rows without a match, NaN on the left,     *)
(*          the whole sorted by key.                                       *)
merge(left, right, left_on, right_on, how) ==
    LET cols == left.columns \cup right.columns
        both(l, r) == [c \in cols |-> IF c \in left.columns THEN l[c] ELSE r[c]]
        leftOnly(l) == [c \in cols |-> IF c \in left.columns THEN l[c] ELSE NaN]
        rightOnly(r) == [c \in cols |-> IF c \in right.columns THEN r[c] ELSE NaN]
        matches(l) == SelectSeq(right.rows,
                                LAMBDA r : KeyOf(r, right_on) = KeyOf(l, left_on))
        rowsFor(l) ==
            IF matches(l) # <<>>
            THEN [j \in DOMAIN matches(l) |-> [k |-> KeyOf(l, left_on), row |-> both(l, matches(l)[j])]]
            ELSE IF how \in {"left", "outer"}
                 THEN << [k |-> KeyOf(l, left_on), row |-> leftOnly(l)] >>
                 ELSE <<>>
        leftPart[i \in 0..Len(left.rows)] ==
            IF i = 0 THEN <<>> ELSE leftPart[i - 1] \o rowsFor(left.rows[i])
        unmatched == SelectSeq(right.rows,
                               LAMBDA r : \A i \in DOMAIN left.rows :
                                              KeyOf(left.rows[i], left_on) # KeyOf(r, right_on))
        rightPart == [j \in DOMAIN unmatched |->
                         [k |-> KeyOf(unmatched[j], right_on), row |-> rightOnly(unmatched[j])]]
        pairs == IF how = "outer"
                 THEN SortByKey(leftPart[Len(left.rows)] \o rightPart)
                 ELSE leftPart[Len(left.rows)]
    IN Table(cols, [i \in DOMAIN pairs |-> pairs[i].row])

----------------------------------------------------------------------------
(* class MergedData                                                        *)

(* What dir() lists on a CSVData besides the frames setattr put there.     *)
DunderNames == {"__class__", "__init__"}

dir(data) == DOMAIN data \cup DunderNames

(* attr.startswith("_"): the names of the frames come from the CSV files   *)
(* of the Fitbit export, none of which begins with an underscore.          *)
startswith_underscore(attr) == attr \in DunderNames

(* isinstance(getattr(data, attr), pd.DataFrame)                           *)
isinstance_DataFrame(data, attr) == attr \in DOMAIN data

(* {attr for attr in dir(data) if not attr.startswith("_") and             *)
(*  isinstance(getattr(data, attr), pd.DataFrame)}                         *)
attrs_data(data) ==
    {attr \in dir(data) : ~startswith_underscore(attr) /\ isinstance_DataFrame(data, attr)}

all_attrs_intersection(d1, d2) == attrs_data(d1) \cap attrs_data(d2)

(* all_attrs = attrs_data1.union(attrs_data2)                              *)
all_attrs(d1, d2) == attrs_data(d1) \cup attrs_data(d2)

(* The frames of the export, in the order the loop over all_attrs is taken *)
(* to visit them (a Python set has no order of its own; the order only     *)
(* numbers the objects pd.concat creates).                                 *)
AttrOrder ==
    << "minuteCaloriesNarrow_merged", "minuteIntensitiesNarrow_merged",
       "minuteMETsNarrow_merged", "minuteStepsNarrow_merged", "minuteSleep_merged",
       "hourlyCalories_merged", "hourlyIntensities_merged", "hourlySteps_merged",
       "dailyActivity_merged", "sleepDay_merged", "weightLogInfo_merged" >>

(* MergedData.__init__(self, data_1, data_2) on the heap h: the heap and   *)
(* the attributes of self when it returns.                                 *)
MergedData__init__(h, d1, d2) ==
    LET body(st, attr) ==
            IF isinstance_DataFrame(d1, attr) /\ isinstance_DataFrame(d2, attr)
            THEN [heap |-> Append(st.heap, concat(h[d1[attr]], h[d2[attr]])),
                  self |-> (attr :> (Len(st.heap) + 1)) @@ st.self]
            ELSE IF isinstance_DataFrame(d1, attr)
            THEN [st EXCEPT !.self = (attr :> d1[attr]) @@ @]
            ELSE IF isinstance_DataFrame(d2, attr)
            THEN [st EXCEPT !.self = (attr :> d2[attr]) @@ @]
            ELSE st
        loop[i \in 0..Len(AttrOrder)] ==
            IF i = 0 THEN [heap |-> h, self |-> [a \in {} |-> 0]]
            ELSE IF AttrOrder[i] \in all_attrs(d1, d2) THEN body(loop[i - 1], AttrOrder[i])
            ELSE loop[i - 1]
    IN loop[Len(AttrOrder)]

----------------------------------------------------------------------------
(* The module-level script after merged_data = MergedData(data_1, data_2). *)
(* A statement maps the script's state [heap, md, printed, raised] to the  *)
(* state after it; once an exception is raised nothing more runs.          *)

hasattr(md, attr) == attr \in DOMAIN md

(* merged_data.<attr> = <a frame no other name refers to>                  *)
setattr_new(st, attr, df) ==
    [st EXCEPT !.heap = Append(@, df), !.md = (attr :> (Len(st.heap) + 1)) @@ @]

print(st, text) == [st EXCEPT !.printed = Append(@, text)]

raise(st, error) == [st EXCEPT !.raised = error]

MinuteWarning == "Warning: One or more core minute-level narrow dataframes are missing. Cannot create minutes_df."
MinuteSleepInfo == "Info: minuteSleep_merged not found. Proceeding without minute-level sleep data."
HourWarning == "Warning: One or more core hourly-level dataframes are missing. Cannot create hourly_df."
DailyWarning == "Warning: dailyActivity_merged not found. Comprehensive daily_df will be limited or empty."
SleepDayWarning == "Warning: sleepDay_merged is missing 'Id' or 'SleepDay' column. Skipping merge with sleepDay_merged."
SleepDayInfo == "Info: sleepDay_merged not found. Proceeding without daily sleep data."
WeightWarning == "Warning: weightLogInfo_merged is missing 'Id' or 'Date' column. Skipping merge with weightLogInfo_merged."
WeightInfo == "Info: weightLogInfo_merged not found. Proceeding without weight data."

dedup_attr_keep_last(st, attr, subset) ==
    IF st.raised # "none" THEN st
    ELSE IF ~has_columns(st.heap[st.md[attr]], subset) THEN raise(st, "KeyError")
    ELSE setattr_new(st, attr, drop_duplicates(st.heap[st.md[attr]], subset, "last"))

(* merged_data.<attr> = merged_data.<attr>.drop_duplicates(subset=subset): *)
(* KeyError when the frame lacks a column of the subset, else the          *)
(* attribute is rebound to the new frame.                                  *)
dedup_attr(st, attr, subset) ==
    IF st.raised # "none" THEN st
    ELSE IF ~has_columns(st.heap[st.md[attr]], subset) THEN raise(st, "KeyError")
    ELSE setattr_new(st, attr, drop_duplicates(st.heap[st.md[attr]], subset, "first"))

missing_core_silent(st, attr, warning) == setattr_new(st, attr, DataFrame({}))

(* Lines 155-156 and 180-181: the warning, and an empty frame as output.   *)
missing_core(st, attr, warning) == setattr_new(print(st, warning), attr, DataFrame({}))

MinuteCore ==
    << "minuteCaloriesNarrow_merged", "minuteIntensitiesNarrow_merged",
       "minuteMETsNarrow_merged", "minuteStepsNarrow_merged" >>

HourCore == << "hourlyCalories_merged", "hourlyIntensities_merged", "hourlySteps_merged" >>

MinuteKey == << "Id", "ActivityMinute" >>
SleepKey == << "Id", "date" >>
HourKey == << "Id", "ActivityHour" >>
DayKey == << "Id", "ActivityDate" >>

minutes_join_inner(a, b, c, d) ==
    merge(merge(merge(a, b, MinuteKey, MinuteKey, "inner"),
                c, MinuteKey, MinuteKey, "inner"),
          d, MinuteKey, MinuteKey, "inner")

(* Lines 127-137: the four core frames joined left to right.               *)
minutes_join(a, b, c, d) ==
    merge(merge(merge(a, b, MinuteKey, MinuteKey, "outer"),
                c, MinuteKey, MinuteKey, "outer"),
          d, MinuteKey, MinuteKey, "outer")

(* Lines 141-145: the sleep frame joined in, ActivityMinute filled from    *)
(* date where it is missing, date dropped.                                 *)
minutes_with_sleep(joined, sleep) ==
    drop(combine_first(merge(joined, sleep, MinuteKey, SleepKey, "outer"),
                       "ActivityMinute", "date"),
         "date")

parse_or_reject(df, col) ==
    IF \E i \in DOMAIN df.rows : to_datetime_format(df.rows[i][col]) = NaT
    THEN Table(df.columns, <<>>)
    ELSE parse_column_format(df, col)

(* Lines 149-150 and 174-175: parse the key column, drop what is NaT.      *)
parse_and_dropna(df, col) == dropna(parse_column_format(df, col), col)

(* Lines 117-156.  minutes_df is bound at line 135 and rebound or written  *)
(* in place from there on; no other name refers to the frames it is bound  *)
(* to after line 137, so they are one object of the heap here.             *)
minute_pipeline(st) ==
    IF \A i \in DOMAIN MinuteCore : hasattr(st.md, MinuteCore[i])
    THEN LET s1 == dedup_attr(dedup_attr(dedup_attr(dedup_attr(st,
                       MinuteCore[1], MinuteKey), MinuteCore[2], MinuteKey),
                       MinuteCore[3], MinuteKey), MinuteCore[4], MinuteKey)
             core(i) == s1.heap[s1.md[MinuteCore[i]]]
             joined == minutes_join(core(1), core(2), core(3), core(4))
             s2 == setattr_new(s1, "minutes_df", joined)
             s3 == IF hasattr(s2.md, "minuteSleep_merged")
                   THEN dedup_attr(s2, "minuteSleep_merged", SleepKey)
                   ELSE print(s2, MinuteSleepInfo)
             merged == IF hasattr(s2.md, "minuteSleep_merged")
                       THEN minutes_with_sleep(joined, s3.heap[s3.md["minuteSleep_merged"]])
                       ELSE joined
         IN IF s1.raised # "none" THEN s1
            ELSE IF s3.raised # "none" THEN s3
            ELSE [s3 EXCEPT !.heap[s3.md["minutes_df"]] = parse_and_dropna(merged, "ActivityMinute")]
    ELSE missing_core(st, "minutes_df", MinuteWarning)

hourly_join_outer(a, b, c) ==
    merge(merge(a, b, HourKey, HourKey, "outer"), c, HourKey, HourKey, "outer")

(* Lines 171-172.                                                          *)
hourly_join(a, b, c) ==
    merge(merge(a, b, HourKey, HourKey, "inner"), c, HourKey, HourKey, "inner")

(* Lines 163-181.                                                          *)
hour_pipeline(st) ==
    IF \A i \in DOMAIN HourCore : hasattr(st.md, HourCore[i])
    THEN LET s1 == dedup_attr(dedup_attr(dedup_attr(st,
                       HourCore[1], HourKey), HourCore[2], HourKey), HourCore[3], HourKey)
             core(i) == s1.heap[s1.md[HourCore[i]]]
         IN IF s1.raised # "none" THEN s1
            ELSE setattr_new(s1, "hourly_df",
                             parse_and_dropna(hourly_join(core(1), core(2), core(3)), "ActivityHour"))
    ELSE missing_core(st, "hourly_df", HourWarning)

(* Lines 191-203, up to the copy: dailyActivity_merged parsed and cleaned  *)
(* in place (lines 192-193 write into the frame the attribute is bound     *)
(* to), then rebound to its deduplicated copy.                             *)
day_seed(st) ==
    IF hasattr(st.md, "dailyActivity_merged")
    THEN IF "ActivityDate" \notin st.heap[st.md["dailyActivity_merged"]].columns
         THEN raise(st, "KeyError")
         ELSE dedup_attr([st EXCEPT !.heap[st.md["dailyActivity_merged"]] =
                                 dropna(parse_column(@, "ActivityDate"), "ActivityDate")],
                         "dailyActivity_merged", DayKey)
    ELSE print(st, DailyWarning)

(* Lines 210-213.                                                          *)
prepare_sleep(df_sleep) ==
    drop_duplicates(rename(dropna(parse_column(df_sleep, "SleepDay"), "SleepDay"),
                           "SleepDay", "ActivityDate"),
                    DayKey, "first")

prepare_weight_keep_first(df_weight) ==
    drop_duplicates(normalize_column(rename(dropna(parse_column(df_weight, "Date"), "Date"),
                                            "Date", "ActivityDate"),
                                     "ActivityDate"),
                    DayKey, "first")

(* Lines 232-236.                                                          *)
prepare_weight(df_weight) ==
    drop_duplicates(normalize_column(rename(dropna(parse_column(df_weight, "Date"), "Date"),
                                            "Date", "ActivityDate"),
                                     "ActivityDate"),
                    DayKey, "last")

attach_outer(daily_df_combined, df) ==
    IF empty(daily_df_combined) THEN df
    ELSE merge(daily_df_combined, df, DayKey, DayKey, "outer")

(* Lines 215-220 and 238-243: a non-empty daily_df_combined takes df as a  *)
(* left join, an empty one is replaced by df.                              *)
attach(daily_df_combined, df) ==
    IF ~empty(daily_df_combined) /\ has_columns(daily_df_combined, DayKey)
    THEN merge(daily_df_combined, df, DayKey, DayKey, "left")
    ELSE IF empty(daily_df_combined) THEN df
    ELSE merge(daily_df_combined, df, DayKey, DayKey, "left")

(* The merge of the last branch of attach raises KeyError: the frame is    *)
(* not empty and lacks a key column.                                       *)
attach_raises(daily_df_combined) ==
    ~empty(daily_df_combined) /\ ~has_columns(daily_df_combined, DayKey)

optional_block_unchecked(st, daily_df_combined, table, columns, warning, info) ==
    IF st.raised # "none" THEN st
    ELSE IF ~hasattr(st.md, table) THEN print(st, info)
    ELSE IF ~has_columns(st.heap[st.md[table]], columns) THEN raise(st, "KeyError")
    ELSE IF attach_raises(daily_df_combined) THEN raise(st, "KeyError")
    ELSE st

(* Lines 207-225 (table = sleepDay_merged) and 229-247 (weightLogInfo):    *)
(* the state after the block.                                              *)
optional_block(st, daily_df_combined, table, columns, warning, info) ==
    IF st.raised # "none" THEN st
    ELSE IF ~hasattr(st.md, table) THEN print(st, info)
    ELSE IF ~has_columns(st.heap[st.md[table]], columns) THEN print(st, warning)
    ELSE IF attach_raises(daily_df_combined) THEN raise(st, "KeyError")
    ELSE st

(* Whether the block of an optional table reaches its merge.               *)
usable(st, table, columns) ==
    hasattr(st.md, table) /\ has_columns(st.heap[st.md[table]], columns)

(* Lines 191-250.                                                          *)
day_pipeline(st) ==
    LET s1 == day_seed(st)
        c1 == IF hasattr(st.md, "dailyActivity_merged")
              THEN s1.heap[s1.md["dailyActivity_merged"]]
              ELSE DataFrame({"Id", "ActivityDate"})
        s2 == optional_block(s1, c1, "sleepDay_merged", <<"Id", "SleepDay">>,
                             SleepDayWarning, SleepDayInfo)
        c2 == IF usable(s1, "sleepDay_merged", <<"Id", "SleepDay">>)
              THEN attach(c1, prepare_sleep(s1.heap[s1.md["sleepDay_merged"]]))
              ELSE c1
        s3 == optional_block(s2, c2, "weightLogInfo_merged", <<"Id", "Date">>,
                             WeightWarning, WeightInfo)
        c3 == IF usable(s2, "weightLogInfo_merged", <<"Id", "Date">>)
              THEN attach(c2, prepare_weight(s2.heap[s2.md["weightLogInfo_merged"]]))
              ELSE c2
    IN IF s3.raised # "none" THEN s3 ELSE setattr_new(s3, "daily_df", c3)

----------------------------------------------------------------------------
(* filter_data.py: DataFilter.  A method maps the heap and the attributes  *)
(* of self to the heap when it ends, the exception it raised ("none" if it *)
(* returned) and the object ids of the frames it returned.                 *)

Ended(h, error, ids) == [heap |-> h, raised |-> error, returned |-> ids]

(* Lines 29-33: the three frames of merged_data by reference, or a new     *)
(* empty frame for one that merged_data lacks.                             *)
DataFilter__init__(h, md) ==
    LET names == <<"minutes_df", "hourly_df", "daily_df">>
        loop[i \in 0..3] ==
            IF i = 0 THEN [heap |-> h, self |-> [a \in {} |-> 0]]
            ELSE IF hasattr(md, names[i])
            THEN [loop[i - 1] EXCEPT !.self = (names[i] :> md[names[i]]) @@ @]
            ELSE [heap |-> Append(loop[i - 1].heap, DataFrame({})),
                  self |-> (names[i] :> (Len(loop[i - 1].heap) + 1)) @@ loop[i - 1].self]
    IN loop[3]

(* df[df["Id"] == user_id]: a new frame of the rows of the subject.        *)
rows_of_user(df, user_id) ==
    Table(df.columns, Filter(df.rows, LAMBDA i : df.rows[i]["Id"] = Num(user_id)))

(* Lines 49-59, for one of the three frames.                               *)
user_slice(df, user_id) ==
    IF ~empty(df) /\ "Id" \in df.columns THEN rows_of_user(df, user_id) ELSE DataFrame({})

(* Lines 35-65.                                                            *)
filter_by_user(h, self, user_id) ==
    Ended(h \o << user_slice(h[self["minutes_df"]], user_id),
                  user_slice(h[self["hourly_df"]], user_id),
                  user_slice(h[self["daily_df"]], user_id) >>,
          "none", <<Len(h) + 1, Len(h) + 2, Len(h) + 3>>)

(* Lines 86-97: the frame and the time column a freq selects.              *)
FreqFrame == [minutes |-> "minutes_df", hourly |-> "hourly_df", daily |-> "daily_df"]

FreqColumn == [minutes |-> "ActivityMinute", hourly |-> "ActivityHour", daily |-> "ActivityDate"]

(* series >= bound and series <= bound of one cell: False for NaT.         *)
ts_ge(v, bound) == ~isna(v) /\ ~isna(bound) /\ v[2] >= bound[2]

ts_le(v, bound) == ~isna(v) /\ ~isna(bound) /\ v[2] <= bound[2]

(* Line 105: the time column of the frame itself is assigned its parse.    *)
ensure_datetime(h, src, time_col) == [h EXCEPT ![src] = parse_column(h[src], time_col)]

(* Lines 107-109: a new frame of the rows within the inclusive bounds.     *)
rows_in_range(df, time_col, start_time, end_time) ==
    Table(df.columns,
          Filter(df.rows, LAMBDA i : /\ ts_ge(df.rows[i][time_col], to_datetime(Txt(start_time)))
                                     /\ ts_le(df.rows[i][time_col], to_datetime(Txt(end_time)))))

filter_by_time_range_lenient(h, self, start_time, end_time, freq) ==
    Ended(Append(h, DataFrame({})), "none", <<Len(h) + 1>>)

filter_by_time_range_view(h, self, start_time, end_time, freq) ==
    IF freq \notin DOMAIN FreqFrame THEN Ended(h, "ValueError", <<>>)
    ELSE Ended(h, "none", <<self[FreqFrame[freq]]>>)

(* Lines 67-109.                                                           *)
filter_by_time_range(h, self, start_time, end_time, freq) ==
    IF freq \notin DOMAIN FreqFrame THEN Ended(h, "ValueError", <<>>)
    ELSE LET src == self[FreqFrame[freq]]
             time_col == FreqColumn[freq]
         IN IF empty(h[src]) \/ time_col \notin h[src].columns
            THEN Ended(Append(h, DataFrame({})), "none", <<Len(h) + 1>>)
            ELSE LET h1 == ensure_datetime(h, src, time_col)
                 IN Ended(Append(h1, rows_in_range(h1[src], time_col, start_time, end_time)),
                          "none", <<Len(h) + 1>>)

(* Lines 111-117.                                                          *)
filter_by_user_and_time(h, self, user_id, start_time, end_time, freq) ==
    LET by_time == filter_by_time_range(h, self, start_time, end_time, freq)
        df_filtered_by_time == by_time.heap[by_time.returned[1]]
    IN IF by_time.raised # "none" THEN by_time
       ELSE IF empty(df_filtered_by_time) \/ "Id" \notin df_filtered_by_time.columns
       THEN Ended(Append(by_time.heap, DataFrame({})), "none", <<Len(by_time.heap) + 1>>)
       ELSE Ended(Append(by_time.heap, rows_of_user(df_filtered_by_time, user_id)),
                  "none", <<Len(by_time.heap) + 1>>)

----------------------------------------------------------------------------
(* The run.                                                                *)

State == [heap |-> heap, md |-> merged_data, printed |-> printed, raised |-> raised]

(* Line 109.                                                               *)
Construct ==
    /\ pc = "MergedData"
    /\ heap' = MergedData__init__(heap, data_1, data_2).heap
    /\ merged_data' = MergedData__init__(heap, data_1, data_2).self
    /\ pc' = "minute"
    /\ UNCHANGED <<data_1, data_2, printed, raised, data_filter, call, returned>>

Becomes(st, next) ==
    /\ heap' = st.heap
    /\ merged_data' = st.md
    /\ printed' = st.printed
    /\ raised' = st.raised
    /\ pc' = IF st.raised # "none" THEN "traceback" ELSE next
    /\ UNCHANGED <<data_1, data_2, data_filter, call, returned>>

Minute == pc = "minute" /\ Becomes(minute_pipeline(State), "hour")

Hour == pc = "hour" /\ Becomes(hour_pipeline(State), "day")

Day == pc = "day" /\ Becomes(day_pipeline(State), "done")

(* data_filter = DataFilter(merged_data), once the script has ended.       *)
NewDataFilter ==
    /\ pc = "done"
    /\ heap' = DataFilter__init__(heap, merged_data).heap
    /\ data_filter' = DataFilter__init__(heap, merged_data).self
    /\ pc' = "query"
    /\ UNCHANGED <<data_1, data_2, merged_data, printed, raised, call, returned>>

(* The arguments the callers pass.                                         *)
UserIds == {1}

Freqs == {"minutes", "hourly", "daily", "weekly"}

Windows == { <<"4/12/2016 12:00:00 AM", "4/12/2016 1:00:00 AM">> }

NoCall ==
    [method |-> "none", user_id |-> 0, start_time |-> "", end_time |-> "", freq |-> "", raised |-> "none"]

(* The newest object that a loader, merged_data or data_filter refers to;  *)
(* the objects after it are the frames the last call returned.             *)
Live ==
    LET ids == {data_1[a] : a \in DOMAIN data_1} \cup {data_2[a] : a \in DOMAIN data_2}
               \cup {merged_data[a] : a \in DOMAIN merged_data}
               \cup {data_filter[a] : a \in DOMAIN data_filter}
    IN CHOOSE i \in ids : \A j \in ids : j <= i

(* A method ends: the caller holds the frames it returned in place of the  *)
(* frames of the call before, which no name refers to any more.            *)
Returns(c, res) ==
    /\ heap' = SubSeq(res.heap, 1, Live) \o [i \in DOMAIN res.returned |-> res.heap[res.returned[i]]]
    /\ returned' = [i \in DOMAIN res.returned |->
                       IF res.returned[i] > Live THEN Live + i ELSE res.returned[i]]
    /\ call' = [c EXCEPT !.raised = res.raised]
    /\ UNCHANGED <<data_1, data_2, merged_data, printed, raised, pc, data_filter>>

FilterByUser ==
    /\ pc = "query"
    /\ \E u \in UserIds :
          Returns([NoCall EXCEPT !.method = "filter_by_user", !.user_id = u],
                  filter_by_user(heap, data_filter, u))

FilterByTimeRange ==
    /\ pc = "query"
    /\ \E w \in Windows, f \in Freqs :
          Returns([NoCall EXCEPT !.method = "filter_by_time_range",
                                 !.start_time = w[1], !.end_time = w[2], !.freq = f],
                  filter_by_time_range(heap, data_filter, w[1], w[2], f))

FilterByUserAndTime ==
    /\ pc = "query"
    /\ \E u \in UserIds, w \in Windows, f \in Freqs :
          Returns([NoCall EXCEPT !.method = "filter_by_user_and_time", !.user_id = u,
                                 !.start_time = w[1], !.end_time = w[2], !.freq = f],
                  filter_by_user_and_time(heap, data_filter, u, w[1], w[2], f))

(* The caller overwrites the Id column of a frame it was returned.         *)
MutateReturned ==
    /\ pc = "query"
    /\ \E i \in DOMAIN returned :
          /\ "Id" \in heap[returned[i]].columns
          /\ \E j \in DOMAIN heap[returned[i]].rows : heap[returned[i]].rows[j]["Id"] # Num(0)
          /\ heap' = [heap EXCEPT ![returned[i]] =
                         Table(@.columns, [j \in DOMAIN @.rows |-> [@.rows[j] EXCEPT !["Id"] = Num(0)]])]
    /\ UNCHANGED <<data_1, data_2, merged_data, printed, raised, pc, data_filter, call, returned>>

Next ==
    \/ Construct \/ Minute \/ Hour \/ Day
    \/ NewDataFilter \/ FilterByUser \/ FilterByTimeRange \/ FilterByUserAndTime \/ MutateReturned

----------------------------------------------------------------------------
(* The folders.  A folder gives every frame name a file or none; the rows  *)
(* of a file are a list of keys (Id, timestamp text), and the value cell   *)
(* of a row tells the folder and the row it came from.                     *)

MaxRows == 2

SeqsUpTo(S, n) == UNION {[1..k -> S] : k \in 0..n}

OneRow(S) == {<<k>> : k \in S}

Absent == [present |-> FALSE, df |-> DataFrame({})]

File(df) == [present |-> TRUE, df |-> df]

Frame(tcol, vcol, keys, folder) ==
    Table({"Id", tcol, vcol},
          [i \in DOMAIN keys |->
              [c \in {"Id", tcol, vcol} |->
                  IF c = "Id" THEN Num(keys[i][1])
                  ELSE IF c = tcol THEN Txt(keys[i][2])
                  ELSE Num(10 * folder + i)]])

Files(tcol, vcol, keyseqs, folder) ==
    {File(Frame(tcol, vcol, keys, folder)) : keys \in keyseqs}

Present(f) == {n \in DOMAIN f : f[n].present}

PresentSeq(f) == SelectSeq(AttrOrder, LAMBDA n : n \in Present(f))

Pos(seq, n) == CHOOSE i \in DOMAIN seq : seq[i] = n

(* The state when CSVData has read both folders (lines 45-49).             *)
Loaded(f1, f2) ==
    /\ heap = [i \in DOMAIN PresentSeq(f1) |-> f1[PresentSeq(f1)[i]].df]
              \o [i \in DOMAIN PresentSeq(f2) |-> f2[PresentSeq(f2)[i]].df]
    /\ data_1 = [n \in Present(f1) |-> Pos(PresentSeq(f1), n)]
    /\ data_2 = [n \in Present(f2) |-> Len(PresentSeq(f1)) + Pos(PresentSeq(f2), n)]
    /\ merged_data = [a \in {} |-> 0]
    /\ printed = <<>>
    /\ raised = "none"
    /\ pc = "MergedData"
    /\ data_filter = [a \in {} |-> 0]
    /\ call = NoCall
    /\ returned = <<>>

MinuteKeys ==
    { <<1, "4/12/2016 1:00:00 AM">>, <<1, "04/12/2016 01:00:00 AM">>,
      <<2, "4/12/2016 1:00:00 AM">>, <<1, "2016-04-12 01:00:00">> }

TwinKeys == { <<1, "4/12/2016 1:00:00 AM">>, <<1, "04/12/2016 01:00:00 AM">> }

FewMinuteKeys == { <<1, "4/12/2016 1:00:00 AM">>, <<2, "4/12/2016 1:00:00 AM">> }

MinuteSleepKeys == FewMinuteKeys \cup { <<1, "2016-04-12 01:00:00">> }

(* Minute frames: Calories of folder 1 is any list of up to MaxRows keys,  *)
(* Calories of folder 2 and the other frames have one row.                 *)
InitMinute ==
    \E f1 \in [ minuteCaloriesNarrow_merged :
                    {Absent} \cup Files("ActivityMinute", "Calories", SeqsUpTo(MinuteKeys, MaxRows), 1),
                minuteIntensitiesNarrow_merged :
                    {Absent} \cup Files("ActivityMinute", "Intensity", OneRow(FewMinuteKeys), 1),
                minuteMETsNarrow_merged :
                    {Absent} \cup Files("ActivityMinute", "METs", OneRow(FewMinuteKeys), 1),
                minuteStepsNarrow_merged :
                    {Absent} \cup Files("ActivityMinute", "Steps", OneRow(FewMinuteKeys), 1),
                minuteSleep_merged :
                    {Absent} \cup Files("date", "value", OneRow(MinuteSleepKeys), 1),
                hourlyCalories_merged : {Absent}, hourlyIntensities_merged : {Absent},
                hourlySteps_merged : {Absent}, dailyActivity_merged : {Absent},
                sleepDay_merged : {Absent}, weightLogInfo_merged : {Absent} ],
       f2 \in [ minuteCaloriesNarrow_merged :
                    {Absent} \cup Files("ActivityMinute", "Calories", OneRow(TwinKeys), 2),
                minuteIntensitiesNarrow_merged : {Absent}, minuteMETsNarrow_merged : {Absent},
                minuteStepsNarrow_merged : {Absent}, minuteSleep_merged : {Absent},
                hourlyCalories_merged : {Absent}, hourlyIntensities_merged : {Absent},
                hourlySteps_merged : {Absent}, dailyActivity_merged : {Absent},
                sleepDay_merged : {Absent}, weightLogInfo_merged : {Absent} ] :
        Loaded(f1, f2)

(* An hour that parses and one that does not.                              *)
HourPair == << <<1, "4/12/2016 1:00:00 AM">>, <<1, "2016-04-12 01:00:00">> >>

(* Hour frames, on the same plan; Intensities and Steps may hold HourPair. *)
InitHour ==
    \E f1 \in [ minuteCaloriesNarrow_merged : {Absent}, minuteIntensitiesNarrow_merged : {Absent},
                minuteMETsNarrow_merged : {Absent}, minuteStepsNarrow_merged : {Absent},
                minuteSleep_merged : {Absent},
                hourlyCalories_merged :
                    {Absent} \cup Files("ActivityHour", "Calories", SeqsUpTo(MinuteKeys, MaxRows), 1),
                hourlyIntensities_merged :
                    {Absent} \cup Files("ActivityHour", "TotalIntensity",
                                        SeqsUpTo(MinuteKeys, 1) \cup {HourPair}, 1),
                hourlySteps_merged :
                    {Absent} \cup Files("ActivityHour", "StepTotal",
                                        SeqsUpTo(MinuteKeys, 1) \cup {HourPair}, 1),
                dailyActivity_merged : {Absent},
                sleepDay_merged : {Absent}, weightLogInfo_merged : {Absent} ],
       f2 \in [ minuteCaloriesNarrow_merged : {Absent}, minuteIntensitiesNarrow_merged : {Absent},
                minuteMETsNarrow_merged : {Absent}, minuteStepsNarrow_merged : {Absent},
                minuteSleep_merged : {Absent},
                hourlyCalories_merged :
                    {Absent} \cup Files("ActivityHour", "Calories", OneRow(TwinKeys), 2),
                hourlyIntensities_merged : {Absent},
                hourlySteps_merged : {Absent}, dailyActivity_merged : {Absent},
                sleepDay_merged : {Absent}, weightLogInfo_merged : {Absent} ] :
        Loaded(f1, f2)

DayKeys == { <<1, "4/12/2016">>, <<1, "4/13/2016">>, <<1, "unknown">> }

SleepDayKeys == { <<1, "4/12/2016 12:00:00 AM">>, <<1, "4/13/2016 12:00:00 AM">> }

WeightKeys ==
    { <<1, "4/12/2016 8:00:00 AM">>, <<1, "4/12/2016 11:59:59 PM">>,
      <<1, "4/13/2016 12:00:00 AM">> }

(* A file that lacks the timestamp column of its kind.                     *)
Keyless(vcol, folder) ==
    File(Table({"Id", vcol}, << [c \in {"Id", vcol} |-> Num(IF c = "Id" THEN 1 ELSE 10 * folder + 1)] >>))

(* A file that lacks the Id column.                                        *)
Anonymous(tcol, vcol, folder) ==
    File(Table({tcol, vcol},
               << [c \in {tcol, vcol} |->
                      IF c = tcol THEN Txt("4/12/2016 12:00:00 AM") ELSE Num(10 * folder + 1)] >>))

(* Day frames: weightLogInfo of folder 1 is any list of up to MaxRows keys, *)
(* the other files have at most one row; sleepDay and weightLogInfo may    *)
(* lack their date column or their Id column.                              *)
InitDay ==
    \E f1 \in [ minuteCaloriesNarrow_merged : {Absent}, minuteIntensitiesNarrow_merged : {Absent},
                minuteMETsNarrow_merged : {Absent}, minuteStepsNarrow_merged : {Absent},
                minuteSleep_merged : {Absent}, hourlyCalories_merged : {Absent},
                hourlyIntensities_merged : {Absent}, hourlySteps_merged : {Absent},
                dailyActivity_merged :
                    {Absent} \cup Files("ActivityDate", "TotalSteps", SeqsUpTo(DayKeys, 1), 1),
                sleepDay_merged :
                    {Absent, Keyless("TotalMinutesAsleep", 1),
                     Anonymous("SleepDay", "TotalMinutesAsleep", 1)}
                    \cup Files("SleepDay", "TotalMinutesAsleep", SeqsUpTo(SleepDayKeys, 1), 1),
                weightLogInfo_merged :
                    {Absent, Keyless("WeightKg", 1), Anonymous("Date", "WeightKg", 1)}
                    \cup Files("Date", "WeightKg", SeqsUpTo(WeightKeys, MaxRows), 1) ],
       f2 \in [ minuteCaloriesNarrow_merged : {Absent}, minuteIntensitiesNarrow_merged : {Absent},
                minuteMETsNarrow_merged : {Absent}, minuteStepsNarrow_merged : {Absent},
                minuteSleep_merged : {Absent}, hourlyCalories_merged : {Absent},
                hourlyIntensities_merged : {Absent}, hourlySteps_merged : {Absent},
                dailyActivity_merged :
                    {Absent} \cup Files("ActivityDate", "TotalSteps", OneRow({<<1, "4/12/2016">>}), 2),
                sleepDay_merged : {Absent},
                weightLogInfo_merged :
                    {Absent} \cup Files("Date", "WeightKg",
                                        OneRow({<<1, "4/12/2016 8:00:00 AM">>,
                                                <<1, "4/12/2016 11:59:59 PM">>}), 2) ] :
        Loaded(f1, f2)

(* The timestamp column and the value column of each frame of the export.  *)
TimeColumn ==
    [ minuteCaloriesNarrow_merged |-> "ActivityMinute", minuteIntensitiesNarrow_merged |-> "ActivityMinute",
      minuteMETsNarrow_merged |-> "ActivityMinute", minuteStepsNarrow_merged |-> "ActivityMinute",
      minuteSleep_merged |-> "date", hourlyCalories_merged |-> "ActivityHour",
      hourlyIntensities_merged |-> "ActivityHour", hourlySteps_merged |-> "ActivityHour",
      dailyActivity_merged |-> "ActivityDate", sleepDay_merged |-> "SleepDay",
      weightLogInfo_merged |-> "Date" ]

ValueColumn ==
    [ minuteCaloriesNarrow_merged |-> "Calories", minuteIntensitiesNarrow_merged |-> "Intensity",
      minuteMETsNarrow_merged |-> "METs", minuteStepsNarrow_merged |-> "Steps",
      minuteSleep_merged |-> "value", hourlyCalories_merged |-> "Calories",
      hourlyIntensities_merged |-> "TotalIntensity", hourlySteps_merged |-> "StepTotal",
      dailyActivity_merged |-> "TotalSteps", sleepDay_merged |-> "TotalMinutesAsleep",
      weightLogInfo_merged |-> "WeightKg" ]

(* The text of 12 April 2016, 1 a.m. (midnight for the day frames) as the  *)
(* export writes it in the frame.                                          *)
UsualText(n) ==
    IF n = "dailyActivity_merged" THEN "4/12/2016"
    ELSE IF n \in {"sleepDay_merged", "weightLogInfo_merged"} THEN "4/12/2016 12:00:00 AM"
    ELSE "4/12/2016 1:00:00 AM"

(* A file of the frame n with one row, two rows of one key, or no row.     *)
Usual(n, folder) ==
    File(Frame(TimeColumn[n], ValueColumn[n], << <<1, UsualText(n)>> >>, folder))

Doubled(n, folder) ==
    File(Frame(TimeColumn[n], ValueColumn[n], << <<1, UsualText(n)>>, <<1, UsualText(n)>> >>, folder))

(* A file of two rows: the usual key, and a key whose text no layout fits.  *)
Mixed(n, folder) ==
    File(Frame(TimeColumn[n], ValueColumn[n], << <<1, UsualText(n)>>, <<1, "unknown">> >>, folder))

Hollow(n, folder) ==
    File(Frame(TimeColumn[n], ValueColumn[n], << >>, folder))

NoFiles == [n \in {AttrOrder[i] : i \in DOMAIN AttrOrder} |-> Absent]

(* Folder 1 holds every frame with its usual one row, but may lack         *)
(* minuteCaloriesNarrow, minuteSleep, hourlyCalories or dailyActivity;     *)
(* folder 2 holds no file, or one file, which may have its usual row, the  *)
(* same key twice, a second key that does not parse, no row, or no         *)
(* timestamp column.                                                       *)
Init ==
    \E f1 \in [ minuteCaloriesNarrow_merged : {Absent, Usual("minuteCaloriesNarrow_merged", 1)},
                minuteIntensitiesNarrow_merged : {Usual("minuteIntensitiesNarrow_merged", 1)},
                minuteMETsNarrow_merged : {Usual("minuteMETsNarrow_merged", 1)},
                minuteStepsNarrow_merged : {Usual("minuteStepsNarrow_merged", 1)},
                minuteSleep_merged : {Absent, Usual("minuteSleep_merged", 1)},
                hourlyCalories_merged : {Absent, Usual("hourlyCalories_merged", 1)},
                hourlyIntensities_merged : {Usual("hourlyIntensities_merged", 1)},
                hourlySteps_merged : {Usual("hourlySteps_merged", 1)},
                dailyActivity_merged : {Absent, Usual("dailyActivity_merged", 1)},
                sleepDay_merged : {Usual("sleepDay_merged", 1)},
                weightLogInfo_merged : {Usual("weightLogInfo_merged", 1)} ],
       f2 \in {NoFiles} \cup
              UNION { { [NoFiles EXCEPT ![n] = Usual(n, 2)],
                        [NoFiles EXCEPT ![n] = Doubled(n, 2)],
                        [NoFiles EXCEPT ![n] = Mixed(n, 2)],
                        [NoFiles EXCEPT ![n] = Hollow(n, 2)],
                        [NoFiles EXCEPT ![n] = Keyless(ValueColumn[n], 2)] } :
                      n \in DOMAIN NoFiles } :
        Loaded(f1, f2)

Spec == Init /\ [][Next]_vars

SpecMinute == InitMinute /\ [][Next]_vars

SpecHour == InitHour /\ [][Next]_vars

SpecDay == InitDay /\ [][Next]_vars

----------------------------------------------------------------------------
(* The properties.                                                         *)

minutes_df == heap[merged_data["minutes_df"]]
hourly_df == heap[merged_data["hourly_df"]]
daily_df == heap[merged_data["daily_df"]]

(* The frame a folder or merged_data binds a name to.                      *)
FrameOf(obj, attr) == heap[obj[attr]]

Range(seq) == {seq[i] : i \in DOMAIN seq}

(* No two rows of df agree on Id and on the column tcol.                   *)
UniqueKeys(df, tcol) ==
    \A i, j \in DOMAIN df.rows :
        i # j => <<df.rows[i]["Id"], df.rows[i][tcol]>> # <<df.rows[j]["Id"], df.rows[j][tcol]>>

(* C1: when the script has run, no two rows of minutes_df, of hourly_df or *)
(* of daily_df share the pair (Id, canonical timestamp), the canonical     *)
(* timestamp being the parsed ActivityMinute, ActivityHour, ActivityDate.  *)
C1_UniqueIdTimestamp ==
    pc = "done" =>
        /\ UniqueKeys(minutes_df, "ActivityMinute")
        /\ UniqueKeys(hourly_df, "ActivityHour")
        /\ UniqueKeys(daily_df, "ActivityDate")

(* The row r, cut down to the columns cols.                                *)
Restrict(r, cols) == [c \in cols |-> r[c]]

(* C2: when MergedData.__init__ has returned, for every name that both     *)
(* folders hold the united frame has len(A) + len(B) rows: the rows of A   *)
(* in their order and then the rows of B in theirs, none dropped.          *)
C2_ConcatKeepsAllRows ==
    pc = "minute" =>
        \A t \in DOMAIN data_1 \cap DOMAIN data_2 :
            LET A == FrameOf(data_1, t)
                B == FrameOf(data_2, t)
                U == FrameOf(merged_data, t)
            IN /\ len(U) = len(A) + len(B)
               /\ \A i \in 1..len(A) : Restrict(U.rows[i], A.columns) = A.rows[i]
               /\ \A i \in 1..len(B) : Restrict(U.rows[len(A) + i], B.columns) = B.rows[i]

C2_Witness ==
    /\ pc = "minute"
    /\ \E t \in DOMAIN data_1 \cap DOMAIN data_2 :
          /\ len(FrameOf(data_1, t)) = MaxRows
          /\ len(FrameOf(data_2, t)) = 1
          /\ len(FrameOf(merged_data, t)) = MaxRows + 1

MissingCore(core) == \E i \in DOMAIN core : ~hasattr(merged_data, core[i])

(* The step binds no name of merged_data to another object and changes no  *)
(* object: what the later pipelines read is what it was.                   *)
NothingTouched ==
    /\ \A a \in DOMAIN merged_data : a \in DOMAIN merged_data' /\ merged_data'[a] = merged_data[a]
    /\ \A i \in DOMAIN heap : i \in DOMAIN heap' /\ heap'[i] = heap[i]

StateAfter == [heap |-> heap', md |-> merged_data', printed |-> <<>>, raised |-> raised']

StateBefore == [heap |-> heap, md |-> merged_data, printed |-> <<>>, raised |-> raised]

(* What a pipeline run from st leaves: its exception, its diagnostics and  *)
(* the frame it binds to attr.                                             *)
Outcome(st, attr) ==
    [raised |-> st.raised, printed |-> st.printed,
     df |-> IF hasattr(st.md, attr) THEN st.heap[st.md[attr]] ELSE DataFrame({})]

(* C4: a minute (hour) pipeline that finds a core frame missing binds      *)
(* minutes_df (hourly_df) to a frame without columns or rows, prints its   *)
(* warning, raises nothing and hands over to the next pipeline; the later  *)
(* pipelines do what they would have done had it not run; and the warning  *)
(* is printed only when a core frame is missing.                           *)
C4_MissingCoreInput ==
    [][ /\ (pc = "minute" /\ MissingCore(MinuteCore)) =>
              /\ pc' = "hour" /\ raised' = "none"
              /\ heap'[merged_data'["minutes_df"]] = DataFrame({})
              /\ printed' = Append(printed, MinuteWarning)
              /\ NothingTouched
              /\ Outcome(hour_pipeline(StateAfter), "hourly_df")
                 = Outcome(hour_pipeline(StateBefore), "hourly_df")
              /\ Outcome(day_pipeline(StateAfter), "daily_df")
                 = Outcome(day_pipeline(StateBefore), "daily_df")
        /\ (pc = "hour" /\ MissingCore(HourCore)) =>
              /\ pc' = "day" /\ raised' = "none"
              /\ heap'[merged_data'["hourly_df"]] = DataFrame({})
              /\ printed' = Append(printed, HourWarning)
              /\ NothingTouched
              /\ Outcome(day_pipeline(StateAfter), "daily_df")
                 = Outcome(day_pipeline(StateBefore), "daily_df")
        /\ (pc = "minute" /\ ~MissingCore(MinuteCore)) => MinuteWarning \notin Range(printed')
        /\ (pc = "hour" /\ ~MissingCore(HourCore)) => HourWarning \notin Range(printed')
      ]_vars

(* The minute core is missing, and the hour and day pipelines have given   *)
(* their rows all the same; the hour pipeline printed no warning.          *)
C4_Witness ==
    /\ pc = "done"
    /\ MissingCore(MinuteCore)
    /\ minutes_df = DataFrame({})
    /\ MinuteWarning \in Range(printed)
    /\ HourWarning \notin Range(printed)
    /\ len(hourly_df) > 0
    /\ len(daily_df) > 0

(* The keys (Id, text) of the rows of df under the column tcol.            *)
KeysOf(df, tcol) == {<<df.rows[i]["Id"], df.rows[i][tcol]>> : i \in DOMAIN df.rows}

(* The text of the key parses under the fixed format.                      *)
Parses(k) == to_datetime_format(k[2]) # NaT

(* The row of the deduplicated frame df that has the key k.                *)
RowAt(df, tcol, k) ==
    df.rows[CHOOSE i \in DOMAIN df.rows : <<df.rows[i]["Id"], df.rows[i][tcol]>> = k]

(* The row r of an output is a row for the key k of the frame df: it has   *)
(* the Id and the parsed timestamp of k and the values df gives for k.     *)
Carries(r, tcol, df, k) ==
    /\ r["Id"] = k[1]
    /\ r[tcol] = to_datetime_format(k[2])
    /\ \A c \in df.columns \ {"Id", tcol} : r[c] = RowAt(df, tcol, k)[c]

(* The row r has the Id and the parsed timestamp of k, and only nulls      *)
(* under the value columns of df.                                          *)
Lacks(r, tcol, df, k) ==
    /\ r["Id"] = k[1]
    /\ r[tcol] = to_datetime_format(k[2])
    /\ \A c \in df.columns \ {"Id", tcol} : isna(r[c])

MinuteFrame(i) == FrameOf(merged_data, MinuteCore[i])

MinuteRan ==
    /\ pc \in {"hour", "day", "done"}
    /\ \A i \in DOMAIN MinuteCore : hasattr(merged_data, MinuteCore[i])

(* The key k is in every core minute frame but the j-th.                   *)
InAllBut(j, k) ==
    \A i \in DOMAIN MinuteCore : (k \in KeysOf(MinuteFrame(i), "ActivityMinute")) <=> (i # j)

(* C5: after the minute pipeline, every key with a parseable timestamp of  *)
(* any deduplicated core frame has a row in minutes_df with that frame's   *)
(* values; a key of three frames that the fourth lacks has exactly one row *)
(* that carries the values of the three and nulls for the fourth.          *)
C5_OuterJoin ==
    MinuteRan =>
        /\ \A i \in DOMAIN MinuteCore :
              \A k \in KeysOf(MinuteFrame(i), "ActivityMinute") :
                  Parses(k) => \E n \in DOMAIN minutes_df.rows :
                                   Carries(minutes_df.rows[n], "ActivityMinute", MinuteFrame(i), k)
        /\ \A j \in DOMAIN MinuteCore :
              \A k \in UNION {KeysOf(MinuteFrame(i), "ActivityMinute") : i \in DOMAIN MinuteCore} :
                  (Parses(k) /\ InAllBut(j, k)) =>
                      Cardinality({n \in DOMAIN minutes_df.rows :
                          /\ Lacks(minutes_df.rows[n], "ActivityMinute", MinuteFrame(j), k)
                          /\ \A i \in DOMAIN MinuteCore \ {j} :
                                Carries(minutes_df.rows[n], "ActivityMinute", MinuteFrame(i), k)}) = 1

C5_Witness ==
    /\ MinuteRan
    /\ \E k \in KeysOf(MinuteFrame(1), "ActivityMinute") :
          /\ Parses(k)
          /\ InAllBut(2, k)
          /\ \E n \in DOMAIN minutes_df.rows :
                /\ Carries(minutes_df.rows[n], "ActivityMinute", MinuteFrame(1), k)
                /\ isna(minutes_df.rows[n]["Intensity"])

HourFrame(i) == FrameOf(merged_data, HourCore[i])

HourRan ==
    /\ pc \in {"day", "done"}
    /\ \A i \in DOMAIN HourCore : hasattr(merged_data, HourCore[i])

InAllHourFrames(k) == \A i \in DOMAIN HourCore : k \in KeysOf(HourFrame(i), "ActivityHour")

(* C6: after the hour pipeline, hourly_df has a row for a key exactly when *)
(* the key is in all three core frames and its timestamp parses: every     *)
(* such key has a row with the values of the three frames, and every row   *)
(* of hourly_df is the row of such a key.                                  *)
C6_InnerJoin ==
    HourRan =>
        /\ \A k \in KeysOf(HourFrame(1), "ActivityHour") :
              (Parses(k) /\ InAllHourFrames(k)) =>
                  \E n \in DOMAIN hourly_df.rows :
                      \A i \in DOMAIN HourCore :
                          Carries(hourly_df.rows[n], "ActivityHour", HourFrame(i), k)
        /\ \A n \in DOMAIN hourly_df.rows :
              \E k \in KeysOf(HourFrame(1), "ActivityHour") :
                  /\ Parses(k) /\ InAllHourFrames(k)
                  /\ \A i \in DOMAIN HourCore :
                        Carries(hourly_df.rows[n], "ActivityHour", HourFrame(i), k)

(* hourlyCalories has two hours, one of which hourlyIntensities lacks: the *)
(* shared hour has its row and that is the only row.                       *)
C6_Witness ==
    /\ HourRan
    /\ \E k, h \in KeysOf(HourFrame(1), "ActivityHour") :
          /\ Parses(k) /\ Parses(h)
          /\ to_datetime_format(k[2]) # to_datetime_format(h[2]) \/ k[1] # h[1]
          /\ InAllHourFrames(k)
          /\ h \notin KeysOf(HourFrame(2), "ActivityHour")
          /\ len(hourly_df) = 1

WeightLog == FrameOf(merged_data, "weightLogInfo_merged")

WeightUsable ==
    /\ hasattr(merged_data, "weightLogInfo_merged")
    /\ has_columns(WeightLog, <<"Id", "Date">>)

(* The rows of the weight log of the subject id on the day whose midnight  *)
(* is day, by their place in the log.                                      *)
Entries(id, day) ==
    {i \in DOMAIN WeightLog.rows :
        /\ WeightLog.rows[i]["Id"] = id
        /\ to_datetime(WeightLog.rows[i]["Date"]) # NaT
        /\ normalize(to_datetime(WeightLog.rows[i]["Date"])) = day}

Last(E) == CHOOSE i \in E : \A j \in E : j <= i

(* The moment of the i-th entry of the weight log.                         *)
Moment(i) == to_datetime(WeightLog.rows[i]["Date"])[2]

(* C7, as claimed: the weight a row of daily_df carries is that of the     *)
(* entry of its (Id, day) with the latest timestamp.                       *)
C7_LaterTimestampWins ==
    (pc = "done" /\ WeightUsable) =>
        \A n \in DOMAIN daily_df.rows :
            \A e \in Entries(daily_df.rows[n]["Id"], daily_df.rows[n]["ActivityDate"]) :
                daily_df.rows[n]["WeightKg"] = WeightLog.rows[e]["WeightKg"] =>
                    \A e2 \in Entries(daily_df.rows[n]["Id"], daily_df.rows[n]["ActivityDate"]) :
                        Moment(e2) <= Moment(e)

(* C7, amended: the weight a row of daily_df carries is that of the entry  *)
(* of its (Id, day) that comes last in the weight log (the rows of folder  *)
(* 1, then those of folder 2), whatever the timestamps; a row of a day     *)
(* without entries carries none.                                           *)
C7_LastRowWins ==
    (pc = "done" /\ WeightUsable) =>
        \A n \in DOMAIN daily_df.rows :
            LET E == Entries(daily_df.rows[n]["Id"], daily_df.rows[n]["ActivityDate"])
            IN IF E = {} THEN isna(daily_df.rows[n]["WeightKg"])
               ELSE daily_df.rows[n]["WeightKg"] = WeightLog.rows[Last(E)]["WeightKg"]

(* Two entries of one day, the later one first in the log: the row of the  *)
(* day carries the weight of the earlier, which is the last in the log.    *)
C7_Witness ==
    /\ pc = "done" /\ WeightUsable
    /\ \E n \in DOMAIN daily_df.rows :
          \E e1, e2 \in Entries(daily_df.rows[n]["Id"], daily_df.rows[n]["ActivityDate"]) :
              /\ e1 < e2
              /\ Moment(e2) < Moment(e1)
              /\ daily_df.rows[n]["WeightKg"] = WeightLog.rows[e2]["WeightKg"]

(* The parsed and deduplicated dailyActivity frame, or the empty seed.     *)
Seed ==
    IF hasattr(merged_data, "dailyActivity_merged")
    THEN FrameOf(merged_data, "dailyActivity_merged")
    ELSE DataFrame({"Id", "ActivityDate"})

SleepLog == FrameOf(merged_data, "sleepDay_merged")

SleepUsable ==
    /\ hasattr(merged_data, "sleepDay_merged")
    /\ has_columns(SleepLog, <<"Id", "SleepDay">>)

(* The (Id, date) pairs of the sleep log and of the weight log.            *)
SleepDays ==
    IF SleepUsable
    THEN {<<SleepLog.rows[i]["Id"], to_datetime(SleepLog.rows[i]["SleepDay"])>> :
             i \in {j \in DOMAIN SleepLog.rows : to_datetime(SleepLog.rows[j]["SleepDay"]) # NaT}}
    ELSE {}

WeightDays ==
    IF WeightUsable
    THEN {<<WeightLog.rows[i]["Id"], normalize(to_datetime(WeightLog.rows[i]["Date"]))>> :
             i \in {j \in DOMAIN WeightLog.rows : to_datetime(WeightLog.rows[j]["Date"]) # NaT}}
    ELSE {}

(* C8, as claimed: daily_df has as many rows as the seed, empty or not.    *)
C8_RowCountOfSeed == pc = "done" => len(daily_df) = len(Seed)

(* C8, amended: a seed with rows keeps its rows, each once, with nulls     *)
(* under the sleep columns where no sleep entry matches; an empty seed is  *)
(* replaced by the prepared sleep log or, if that has no row, by the       *)
(* prepared weight log, one row for each of its (Id, date) pairs.          *)
C8_LeftJoin ==
    pc = "done" =>
        /\ len(daily_df) = IF len(Seed) > 0 THEN len(Seed)
                           ELSE IF SleepDays # {} THEN Cardinality(SleepDays)
                           ELSE Cardinality(WeightDays)
        /\ len(Seed) > 0 =>
              \A i \in DOMAIN Seed.rows :
                  \E n \in DOMAIN daily_df.rows :
                      /\ Restrict(daily_df.rows[n], Seed.columns) = Seed.rows[i]
                      /\ (SleepUsable /\ <<Seed.rows[i]["Id"], Seed.rows[i]["ActivityDate"]>> \notin SleepDays)
                            => \A c \in SleepLog.columns \ {"Id", "SleepDay"} : isna(daily_df.rows[n][c])

(* A seed of two days, a sleep entry for one of them only, and weights     *)
(* for days outside the seed.                                              *)
C8_Witness ==
    /\ pc = "done"
    /\ len(Seed) = 2
    /\ Cardinality(SleepDays) = 1
    /\ \E i \in DOMAIN Seed.rows : <<Seed.rows[i]["Id"], Seed.rows[i]["ActivityDate"]>> \notin SleepDays
    /\ Cardinality(WeightDays) = 2
    /\ len(daily_df) = 2

(* C9: the script raises nothing, whatever frames the folders hold and     *)
(* whatever their columns, and when it ends the three outputs are bound.   *)
C9_NothingRaised ==
    /\ raised = "none"
    /\ pc # "traceback"
    /\ pc = "done" => {"minutes_df", "hourly_df", "daily_df"} \subseteq DOMAIN merged_data

(* C10: no pipeline changes a frame of the united mapping or of a folder:  *)
(* every name stays bound to a frame of the rows, columns and values it    *)
(* had.                                                                    *)
C10_InputsNotMutated ==
    [][ /\ pc \in {"minute", "hour", "day"} =>
              /\ \A a \in DOMAIN merged_data :
                    /\ a \in DOMAIN merged_data'
                    /\ heap'[merged_data'[a]] = heap[merged_data[a]]
              /\ \A a \in DOMAIN data_1 : heap'[data_1'[a]] = heap[data_1[a]]
              /\ \A a \in DOMAIN data_2 : heap'[data_2'[a]] = heap[data_2[a]] ]_vars

----------------------------------------------------------------------------
(* DataFilter.                                                             *)

TimeMethods == {"filter_by_time_range", "filter_by_user_and_time"}

Canonical == {"minutes_df", "hourly_df", "daily_df"}

(* C11: a call of filter_by_time_range or filter_by_user_and_time with a   *)
(* freq other than "minutes", "hourly" and "daily" ends with ValueError    *)
(* and returns no frame; with one of the three it raises nothing and       *)
(* returns one frame, whatever the canonical tables hold.                  *)
C11_InvalidFreq ==
    call.method \in TimeMethods =>
        IF call.freq \in {"minutes", "hourly", "daily"}
        THEN /\ call.raised = "none"
             /\ Len(returned) = 1
             /\ returned[1] \in DOMAIN heap
             /\ heap[returned[1]].columns \in {{}, heap[data_filter[FreqFrame[call.freq]]].columns}
        ELSE /\ call.raised = "ValueError"
             /\ returned = <<>>

(* An unknown freq asked of tables that have rows.                         *)
C11_Witness ==
    /\ call.method = "filter_by_user_and_time"
    /\ call.freq = "weekly"
    /\ call.raised = "ValueError"
    /\ \A a \in Canonical : ~empty(heap[merged_data[a]])

(* The calls the model makes, and what a call returns on the heap h: the   *)
(* exception and the values of the frames.                                 *)
Queries ==
    {[NoCall EXCEPT !.method = "filter_by_user", !.user_id = u] : u \in UserIds}
    \cup {[NoCall EXCEPT !.method = "filter_by_time_range",
                         !.start_time = w[1], !.end_time = w[2], !.freq = f] :
             w \in Windows, f \in Freqs}
    \cup {[NoCall EXCEPT !.method = "filter_by_user_and_time", !.user_id = u,
                         !.start_time = w[1], !.end_time = w[2], !.freq = f] :
             u \in UserIds, w \in Windows, f \in Freqs}

Answer(h, q) ==
    LET res == IF q.method = "filter_by_user" THEN filter_by_user(h, data_filter, q.user_id)
               ELSE IF q.method = "filter_by_time_range"
               THEN filter_by_time_range(h, data_filter, q.start_time, q.end_time, q.freq)
               ELSE filter_by_user_and_time(h, data_filter, q.user_id, q.start_time, q.end_time, q.freq)
    IN [raised |-> res.raised, frames |-> [i \in DOMAIN res.returned |-> res.heap[res.returned[i]]]]

(* C12: a call of a DataFilter method, and a write by the caller into a    *)
(* frame it was returned, leave the three canonical tables as they were;   *)
(* the frames returned are new objects, none of them a canonical table;    *)
(* and every call returns after the step what it would have returned       *)
(* before it.                                                              *)
C12_Isolation ==
    [][ /\ pc = "query" =>
              /\ \A a \in Canonical : heap'[merged_data[a]] = heap[merged_data[a]]
              /\ \A i \in DOMAIN returned' : returned'[i] > Live
              /\ \A q \in Queries : Answer(heap', q) = Answer(heap, q) ]_vars

(* The caller has overwritten the frame of the one row that a time-range   *)
(* call selected from a daily_df of two rows.                              *)
C12_Witness ==
    /\ call.method = "filter_by_time_range"
    /\ call.freq = "daily"
    /\ Len(returned) = 1
    /\ len(heap[returned[1]]) = 1
    /\ heap[returned[1]].rows[1]["Id"] = Num(0)
    /\ len(heap[merged_data["daily_df"]]) = 2
    /\ \A i \in {1, 2} : heap[merged_data["daily_df"]].rows[i]["Id"] = Num(1)

----------------------------------------------------------------------------
(* Which of the rows of one key survives.                                  *)

(* The frame of the name attr as MergedData.__init__ united it, before     *)
(* any pipeline has deduplicated it.                                       *)
Unified(attr) ==
    IF attr \in DOMAIN data_1 /\ attr \in DOMAIN data_2
    THEN concat(FrameOf(data_1, attr), FrameOf(data_2, attr))
    ELSE IF attr \in DOMAIN data_1 THEN FrameOf(data_1, attr)
    ELSE FrameOf(data_2, attr)

RawKey(df, tcol, i) == <<df.rows[i]["Id"], df.rows[i][tcol]>>

(* The i-th row of df is the first of df with its key.                     *)
FirstOfKey(df, tcol, i) == \A j \in 1..(i - 1) : RawKey(df, tcol, j) # RawKey(df, tcol, i)

(* The row r of an output has the key and the values of the i-th row of    *)
(* the united frame df.                                                    *)
Shows(r, tcol, df, i) ==
    /\ r["Id"] = df.rows[i]["Id"]
    /\ r[tcol] = to_datetime_format(df.rows[i][tcol])
    /\ \A c \in df.columns \ {"Id", tcol} : r[c] = df.rows[i][c]

(* The output out of the core frames names, joined on tcol, shows of each  *)
(* key of a united core frame the values of the first row that has the key *)
(* and of no later row; required, when every key is shown (outer join),    *)
(* of every key that parses, else of those that all the frames have.       *)
FirstWins(out, names, tcol, outer) ==
    \A a \in DOMAIN names :
        \A i \in DOMAIN Unified(names[a]).rows :
            LET U == Unified(names[a])
                shown == {n \in DOMAIN out.rows : Shows(out.rows[n], tcol, U, i)}
                everywhere == \A b \in DOMAIN names :
                                  RawKey(U, tcol, i) \in KeysOf(Unified(names[b]), tcol)
            IN IF ~FirstOfKey(U, tcol, i) THEN shown = {}
               ELSE (Parses(RawKey(U, tcol, i)) /\ (outer \/ everywhere)) => shown # {}

(* C13: minutes_df and hourly_df show, for a key (Id, timestamp text) that *)
(* a united core frame holds more than once, the values of the first row   *)
(* of the key in the order of the concatenation, the row of folder 1 when  *)
(* both folders have one, and the values of none of the later rows.        *)
C13_FirstOccurrenceWins ==
    /\ MinuteRan => FirstWins(minutes_df, MinuteCore, "ActivityMinute", TRUE)
    /\ HourRan => FirstWins(hourly_df, HourCore, "ActivityHour", FALSE)

(* Both folders have a row of one key in minuteCaloriesNarrow, with        *)
(* different Calories, and minutes_df has the Calories of folder 1.        *)
C13_Witness ==
    /\ MinuteRan
    /\ {"minuteCaloriesNarrow_merged"} \subseteq DOMAIN data_1 \cap DOMAIN data_2
    /\ LET A == FrameOf(data_1, "minuteCaloriesNarrow_merged")
           B == FrameOf(data_2, "minuteCaloriesNarrow_merged")
       IN /\ len(A) = 1 /\ len(B) > 0
          /\ "ActivityMinute" \in B.columns
          /\ RawKey(A, "ActivityMinute", 1) = RawKey(B, "ActivityMinute", 1)
          /\ A.rows[1]["Calories"] # B.rows[1]["Calories"]
          /\ len(minutes_df) = 1
          /\ minutes_df.rows[1]["Calories"] = A.rows[1]["Calories"]

----------------------------------------------------------------------------
(* Minute sleep.                                                           *)

MinuteSleep == FrameOf(merged_data, "minuteSleep_merged")

CoreKeys == UNION {KeysOf(MinuteFrame(i), "ActivityMinute") : i \in DOMAIN MinuteCore}

CoreColumns == UNION {MinuteFrame(i).columns \ {"Id", "ActivityMinute"} : i \in DOMAIN MinuteCore}

(* The row r is the row of the key k of the sleep frame alone: the Id of   *)
(* k, the parsed date of k as its ActivityMinute, the values of the sleep  *)
(* row and nulls under every column of the core frames.                    *)
SleepOnly(r, k) ==
    /\ r["Id"] = k[1]
    /\ r["ActivityMinute"] = to_datetime_format(k[2])
    /\ \A c \in MinuteSleep.columns \ {"Id", "date"} : r[c] = RowAt(MinuteSleep, "date", k)[c]
    /\ \A c \in CoreColumns : isna(r[c])

(* What the minute pipeline does apart from the rows of sleep keys: with   *)
(* a sleep frame, minutes_df has no date column and a row of a core key    *)
(* has the parsed ActivityMinute of the key; without one, minutes_df has   *)
(* the columns and the keys of the core frames and nothing but the         *)
(* informational line was printed.                                         *)
SleepReconciled ==
    IF hasattr(merged_data, "minuteSleep_merged")
    THEN /\ "date" \notin minutes_df.columns
         /\ MinuteSleepInfo \notin Range(printed)
         /\ \A i \in DOMAIN MinuteCore :
               \A k \in KeysOf(MinuteFrame(i), "ActivityMinute") :
                   Parses(k) => \E n \in DOMAIN minutes_df.rows :
                                    Carries(minutes_df.rows[n], "ActivityMinute", MinuteFrame(i), k)
    ELSE /\ minutes_df.columns = {"Id", "ActivityMinute"} \cup CoreColumns
         /\ \A n \in DOMAIN minutes_df.rows :
               \E k \in CoreKeys : /\ minutes_df.rows[n]["Id"] = k[1]
                                   /\ minutes_df.rows[n]["ActivityMinute"] = to_datetime_format(k[2])
         /\ \A k \in CoreKeys :
               Parses(k) => \E n \in DOMAIN minutes_df.rows :
                                /\ minutes_df.rows[n]["Id"] = k[1]
                                /\ minutes_df.rows[n]["ActivityMinute"] = to_datetime_format(k[2])
         /\ printed[1] = MinuteSleepInfo
         /\ MinuteWarning \notin Range(printed)

(* C14, as claimed: besides, every key of the deduplicated sleep frame     *)
(* that no core frame has is a row of minutes_df with the date of the key  *)
(* as its timestamp and nulls under the core columns.                      *)
C14_EverySleepRowKept ==
    MinuteRan =>
        /\ SleepReconciled
        /\ hasattr(merged_data, "minuteSleep_merged") =>
              \A k \in KeysOf(MinuteSleep, "date") \ CoreKeys :
                  \E n \in DOMAIN minutes_df.rows : SleepOnly(minutes_df.rows[n], k)

(* C14, amended: besides, every key of the deduplicated sleep frame that   *)
(* no core frame has and whose date parses under the fixed format is a row *)
(* of minutes_df with the parsed date as its timestamp and nulls under the *)
(* core columns; a sleep key whose date does not parse has no row.         *)
C14_ParseableSleepRowKept ==
    MinuteRan =>
        /\ SleepReconciled
        /\ hasattr(merged_data, "minuteSleep_merged") =>
              \A k \in KeysOf(MinuteSleep, "date") \ CoreKeys :
                  IF Parses(k)
                  THEN \E n \in DOMAIN minutes_df.rows : SleepOnly(minutes_df.rows[n], k)
                  ELSE \A n \in DOMAIN minutes_df.rows :
                           minutes_df.rows[n]["value"] # RowAt(MinuteSleep, "date", k)["value"]

(* A sleep row of subject 2, core rows of subject 1 only.                  *)
C14_Witness ==
    /\ MinuteRan
    /\ hasattr(merged_data, "minuteSleep_merged")
    /\ <<Num(2), Txt("4/12/2016 1:00:00 AM")>> \in KeysOf(MinuteSleep, "date") \ CoreKeys
    /\ <<Num(1), Txt("4/12/2016 1:00:00 AM")>> \in KeysOf(MinuteFrame(1), "ActivityMinute")
    /\ len(minutes_df) = 2
    /\ \E n \in {1, 2} : SleepOnly(minutes_df.rows[n], <<Num(2), Txt("4/12/2016 1:00:00 AM")>>)
    /\ \E n \in {1, 2} : Carries(minutes_df.rows[n], "ActivityMinute", MinuteFrame(1),
                                 <<Num(1), Txt("4/12/2016 1:00:00 AM")>>)

----------------------------------------------------------------------------
(* Timestamps that do not parse.                                           *)

(* The output out of the deduplicated frames names, joined on tcol: every  *)
(* row has a timestamp, the parse of the text of a key of a frame (of the  *)
(* sleep frame as well if sleep); a key whose text does not parse has no   *)
(* row; and a key whose text parses has its row if the join keeps the key  *)
(* (outer: any key, else a key of all the frames), whatever becomes of the *)
(* other keys.                                                             *)
RowByRow(out, names, tcol, outer, sleep) ==
    LET keys == UNION {KeysOf(FrameOf(merged_data, names[a]), tcol) : a \in DOMAIN names}
                \cup (IF sleep THEN KeysOf(MinuteSleep, "date") ELSE {})
    IN /\ \A n \in DOMAIN out.rows :
             /\ out.rows[n][tcol] # NaT
             /\ out.rows[n][tcol][1] = "ts"
             /\ \E k \in keys : /\ Parses(k)
                                /\ out.rows[n]["Id"] = k[1]
                                /\ out.rows[n][tcol] = to_datetime_format(k[2])
       /\ \A a \in DOMAIN names :
             LET F == FrameOf(merged_data, names[a])
             IN \A k \in KeysOf(F, tcol) :
                    IF Parses(k)
                    THEN (outer \/ \A b \in DOMAIN names : k \in KeysOf(FrameOf(merged_data, names[b]), tcol))
                            => \E n \in DOMAIN out.rows : Carries(out.rows[n], tcol, F, k)
                    ELSE \A n \in DOMAIN out.rows :
                             \A c \in F.columns \ {"Id", tcol} : out.rows[n][c] # RowAt(F, tcol, k)[c]

(* C15: every row of minutes_df and of hourly_df has a timestamp that      *)
(* parsed under the fixed format; a joined row whose text does not parse   *)
(* is not in the output, and a joined row whose text parses is, though     *)
(* other rows were dropped.                                                *)
C15_DroppedRowByRow ==
    /\ MinuteRan => RowByRow(minutes_df, MinuteCore, "ActivityMinute", TRUE,
                             hasattr(merged_data, "minuteSleep_merged"))
    /\ HourRan => RowByRow(hourly_df, HourCore, "ActivityHour", FALSE, FALSE)

(* A core minute frame has a key that parses and one that does not;        *)
(* minutes_df has the row of the first, and hourly_df has its row too.     *)
C15_Witness ==
    /\ pc = "done"
    /\ MinuteRan /\ HourRan
    /\ \E a \in DOMAIN MinuteCore :
          KeysOf(MinuteFrame(a), "ActivityMinute")
              = {<<Num(1), Txt("4/12/2016 1:00:00 AM")>>, <<Num(1), Txt("unknown")>>}
    /\ len(minutes_df) = 1
    /\ len(hourly_df) = 1

----------------------------------------------------------------------------
(* Optional day tables without their columns.                              *)

OptionalTables ==
    << [table |-> "sleepDay_merged", columns |-> <<"Id", "SleepDay">>, warning |-> SleepDayWarning],
       [table |-> "weightLogInfo_merged", columns |-> <<"Id", "Date">>, warning |-> WeightWarning] >>

(* The state before the step, had merged_data not held the name attr.      *)
StateWithout(attr) ==
    [StateBefore EXCEPT !.md = [a \in DOMAIN merged_data \ {attr} |-> merged_data[a]]]

(* C16: when merged_data holds sleepDay_merged without Id or SleepDay, or  *)
(* weightLogInfo_merged without Id or Date, the day pipeline ends without  *)
(* an exception, prints the warning of the table, and binds daily_df to    *)
(* the frame it would have bound had merged_data not held the table, the   *)
(* other optional table merged as it would have been.                      *)
C16_SchemaMismatchSkipped ==
    [][ /\ pc = "day" =>
              \A o \in DOMAIN OptionalTables :
                  ( /\ hasattr(merged_data, OptionalTables[o].table)
                    /\ ~has_columns(FrameOf(merged_data, OptionalTables[o].table),
                                    OptionalTables[o].columns) ) =>
                      /\ raised' = "none"
                      /\ pc' = "done"
                      /\ OptionalTables[o].warning \in Range(printed')
                      /\ heap'[merged_data'["daily_df"]]
                         = Outcome(day_pipeline(StateWithout(OptionalTables[o].table)), "daily_df").df ]_vars

(* sleepDay_merged has no SleepDay column; the warning was printed and     *)
(* daily_df has the rows of dailyActivity with their weights and no sleep  *)
(* column.                                                                 *)
C16_Witness ==
    /\ pc = "done"
    /\ hasattr(merged_data, "sleepDay_merged")
    /\ "SleepDay" \notin SleepLog.columns
    /\ SleepDayWarning \in Range(printed)
    /\ WeightWarning \notin Range(printed)
    /\ len(Seed) > 0
    /\ len(daily_df) = len(Seed)
    /\ "TotalMinutesAsleep" \notin daily_df.columns
    /\ "WeightKg" \in daily_df.columns
    /\ \E n \in DOMAIN daily_df.rows : ~isna(daily_df.rows[n]["WeightKg"])

====
